---- MODULE Spec2Model ----
(***************************************************************************)
(* Kepler orbit visualisation: simulator_with_graphs.py (slider-driven     *)
(* kepler_combined with preset callback) and animated_orbit.py (one        *)
(* animated trajectory with a velocity arrow).                             *)
(*                                                                         *)
(* numpy's float64 arithmetic is modelled by decimal floating point with   *)
(* an eight-digit mantissa, truncating: a number is [k, m, e] and stands   *)
(* for m * 10^e, with 10^7 <= |m| < 10^8 unless m = 0.  k is "num" for a   *)
(* number, "nan" for NaN and "zdiv" for the result of a division by zero.  *)
(***************************************************************************)
EXTENDS Integers, Sequences, FiniteSets, TLC

\* ------------------------------------------------------------------------
\* Decimal floating point
\* ------------------------------------------------------------------------

Limb == 10 * 1000
MantLo == Limb * 1000
MantHi == Limb * Limb

Abs(n) == IF n < 0 THEN -n ELSE n
Sgn(n) == IF n < 0 THEN -1 ELSE IF n > 0 THEN 1 ELSE 0

Float == [k : {"num", "nan", "zdiv"}, m : Int, e : Int]

NaN == [k |-> "nan", m |-> 0, e |-> 0]
ZDiv == [k |-> "zdiv", m |-> 0, e |-> 0]
Zero == [k |-> "num", m |-> 0, e |-> 0]

\* The arithmetic is written as functions: TLC evaluates the argument of a
\* function once, where it evaluates the argument of an operator at every use.

\* the magnitude mag * 10^ex with the mantissa brought to eight digits
NormMag[mag \in Nat, ex \in Int] ==
    IF mag >= MantHi THEN NormMag[mag \div 10, ex + 1]
    ELSE IF mag < MantLo THEN NormMag[mag * 10, ex - 1]
    ELSE <<mag, ex>>

Norm[mant \in Int, ex \in Int] ==
    IF mant = 0 THEN Zero
    ELSE [k |-> "num", m |-> Sgn(mant) * NormMag[Abs(mant), ex][1],
          e |-> NormMag[Abs(mant), ex][2]]

\* an integer, and a slider value given in tenths
FromInt(n) == Norm[n, 0]
FromTenths(t) == Norm[t, -1]

IsNum(a) == a.k = "num"
\* a special operand decides the result: a division by zero before NaN
Special(a, b) == IF a.k = "zdiv" \/ b.k = "zdiv" THEN ZDiv ELSE NaN

FNeg[a \in Float] == [a EXCEPT !.m = -a.m]
FAbs[a \in Float] == [a EXCEPT !.m = Abs(a.m)]

\* floor(x * y / 10^7) for mantissas x, y < 10^8, by four-digit limbs
MulTop[x \in Nat, y \in Nat] ==
    LET xh == x \div Limb
        xl == x % Limb
        yh == y \div Limb
        yl == y % Limb
        cross == xh * yl + xl * yh
        low == xl * yl + (cross % Limb) * Limb
        hi == xh * yh + cross \div Limb + low \div MantHi
        lo == low % MantHi
    IN hi * 10 + lo \div MantLo

FMul[a \in Float, b \in Float] ==
    IF ~IsNum(a) \/ ~IsNum(b) THEN Special(a, b)
    ELSE IF a.m = 0 \/ b.m = 0 THEN Zero
    ELSE Norm[Sgn(a.m) * Sgn(b.m) * MulTop[Abs(a.m), Abs(b.m)], a.e + b.e + 7]

\* n more decimal digits of the quotient q with remainder r, divisor d
LongDiv[q \in Nat, r \in Nat, d \in Nat, n \in Nat] ==
    IF n = 0 THEN q
    ELSE LongDiv[q * 10 + (r * 10) \div d, (r * 10) % d, d, n - 1]

FDiv[a \in Float, b \in Float] ==
    IF ~IsNum(a) \/ ~IsNum(b) THEN Special(a, b)
    ELSE IF b.m = 0 THEN ZDiv
    ELSE IF a.m = 0 THEN Zero
    ELSE Norm[Sgn(a.m) * Sgn(b.m)
                  * LongDiv[Abs(a.m) \div Abs(b.m), Abs(a.m) % Abs(b.m), Abs(b.m), 8],
              a.e - b.e - 8]

Pow10[n \in Nat] == IF n = 0 THEN 1 ELSE 10 * Pow10[n - 1]

\* mant * 10^(-n), truncated towards zero
ShiftRight[mant \in Int, n \in Nat] ==
    IF n > 9 THEN 0 ELSE Sgn(mant) * (Abs(mant) \div Pow10[n])

FAdd[a \in Float, b \in Float] ==
    IF ~IsNum(a) \/ ~IsNum(b) THEN Special(a, b)
    ELSE IF a.m = 0 THEN b
    ELSE IF b.m = 0 THEN a
    ELSE IF a.e >= b.e
         THEN Norm[a.m * 10 + ShiftRight[b.m * 10, a.e - b.e], a.e - 1]
         ELSE Norm[b.m * 10 + ShiftRight[a.m * 10, b.e - a.e], b.e - 1]

FSub[a \in Float, b \in Float] == FAdd[a, FNeg[b]]

\* exact order of two numbers; any comparison with a special value is false
MagLt(a, b) ==
    IF a.m = 0 THEN b.m # 0
    ELSE IF b.m = 0 THEN FALSE
    ELSE a.e < b.e \/ (a.e = b.e /\ Abs(a.m) < Abs(b.m))

FLt[a \in Float, b \in Float] ==
    /\ IsNum(a) /\ IsNum(b)
    /\ IF Sgn(a.m) # Sgn(b.m) THEN Sgn(a.m) < Sgn(b.m)
       ELSE IF a.m >= 0 THEN MagLt(a, b) ELSE MagLt(b, a)

FGt[a \in Float, b \in Float] == FLt[b, a]
FLe[a \in Float, b \in Float] == IsNum(a) /\ IsNum(b) /\ ~FLt[b, a]
FGe[a \in Float, b \in Float] == FLe[b, a]
FEq[a \in Float, b \in Float] == IsNum(a) /\ IsNum(b) /\ a.m = b.m /\ a.e = b.e

\* s * s <= hi * 10^8, by four-digit limbs
SquareLe[s \in Nat, hi \in Nat] ==
    LET sh == s \div Limb
        sl == s % Limb
        cross == 2 * sh * sl
        low == sl * sl + (cross % Limb) * Limb
        h == sh * sh + cross \div Limb + low \div MantHi
        l == low % MantHi
    IN h < hi \/ (h = hi /\ l = 0)

\* the largest s in lo..up with s * s <= hi * 10^8
ISqrt[hi \in Nat, lo \in Nat, up \in Nat] ==
    IF lo = up THEN lo
    ELSE IF SquareLe[(lo + up + 1) \div 2, hi]
         THEN ISqrt[hi, (lo + up + 1) \div 2, up]
         ELSE ISqrt[hi, lo, (lo + up + 1) \div 2 - 1]

\* np.sqrt: NaN for a negative number
FSqrt[a \in Float] ==
    IF ~IsNum(a) THEN a
    ELSE IF a.m < 0 THEN NaN
    ELSE IF a.m = 0 THEN Zero
    ELSE IF a.e % 2 # 0
         THEN Norm[ISqrt[a.m * 10, 1, 4 * MantHi], (a.e - 9) \div 2]
         ELSE Norm[ISqrt[a.m, 1, 4 * MantHi], (a.e - 8) \div 2]

\* x ** 2
Sq[x \in Float] == FMul[x, x]

One == FromInt(1)
Two == FromInt(2)
Half == FromTenths(5)

\* ------------------------------------------------------------------------
\* np.pi, np.cos, np.sin, np.linspace
\* ------------------------------------------------------------------------

\* 2 * np.pi
TwoPi == [k |-> "num", m |-> 62831853, e |-> -7]

\* An angle is [n, d]: the fraction n/d of a full turn, 0 <= n <= d.
Angle == [n : Nat, d : Nat]

\* its value in radians
Radians(t) == FDiv[FMul[TwoPi, FromInt(t.n)], FromInt(t.d)]

\* one step 1 - (x2 / c) * inner of the nested Taylor sum
TaylorStep(x2, c, inner) == FSub[One, FMul[FDiv[x2, FromInt(c)], inner]]

\* 1 - (x2/c1) * (1 - (x2/c2) * (1 - ...)) for cs = <<c1, c2, ...>>
Horner[x2 \in Float, cs \in Seq(Nat)] ==
    IF cs = <<>> THEN One ELSE TaylorStep(x2, Head(cs), Horner[x2, Tail(cs)])

\* cos x and sin x for 0 <= x <= pi/4
CosTaylor[x \in Float] == Horner[Sq[x], <<2, 12, 30, 56, 90>>]
SinTaylor[x \in Float] == FMul[x, Horner[Sq[x], <<6, 20, 42, 72, 110>>]]

\* cos(2 pi - x) = cos x, sin(2 pi - x) = -sin x: an angle of the first half turn
FoldHalf(t) == IF 2 * t.n > t.d THEN [n |-> t.d - t.n, d |-> t.d] ELSE t
\* cos(pi - x) = -cos x, sin(pi - x) = sin x: an angle of the first quarter turn
FoldQuarter(h) == IF 4 * h.n > h.d THEN [n |-> h.d - 2 * h.n, d |-> 2 * h.d] ELSE h
\* cos x = sin(pi/2 - x): an angle of the first eighth of a turn
FoldOctant(q) == IF 8 * q.n > q.d THEN [n |-> q.d - 4 * q.n, d |-> 4 * q.d] ELSE q

\* cos (swap = FALSE) or sin (swap = TRUE) of the angle q within a quarter turn
CosQuarter[q \in Angle, swap \in BOOLEAN] ==
    IF (8 * q.n > q.d) # swap
    THEN SinTaylor[Radians(FoldOctant(q))]
    ELSE CosTaylor[Radians(FoldOctant(q))]

Signed[negative \in BOOLEAN, v \in Float] == IF negative THEN FNeg[v] ELSE v

\* np.cos, np.sin of the angle t
Cos(t) == Signed[4 * FoldHalf(t).n > FoldHalf(t).d, CosQuarter[FoldQuarter(FoldHalf(t)), FALSE]]
Sin(t) == Signed[2 * t.n > t.d, CosQuarter[FoldQuarter(FoldHalf(t)), TRUE]]

\* a faulty variant of Linspace: the end point left out, as
\* np.linspace(0, 2 * np.pi, num, endpoint=False) would do
LinspaceHalfOpen(num) == [i \in 1..num |-> [n |-> i - 1, d |-> num]]

\* np.linspace(0, 2 * np.pi, num): num angles, the k-th being k * (2 pi / (num - 1)),
\* so the last one is the end point 2 pi itself
Linspace(num) == [i \in 1..num |-> [n |-> i - 1, d |-> num - 1]]

\* the number of samples of the angle grid (the scripts use 1000)
NSamples == 9

\* ------------------------------------------------------------------------
\* simulator_with_graphs.py: kepler_combined
\* ------------------------------------------------------------------------

\* Parameters are records [m1, m2, Lz, alpha, E] of slider values in tenths.
\* The numbers kepler_combined names: its arguments, its locals, and
\* cos_theta, sin_theta for an element of np.cos(theta), np.sin(theta).
KeplerNames ==
    {"m1", "m2", "Lz", "alpha", "E", "mu", "arg", "epsilon", "p",
     "cos_theta", "sin_theta", "denom", "r", "x2", "y2",
     "dr_dtheta", "theta_dot", "r_dot", "T", "U", "E_total"}

KeplerLocals == [KeplerNames -> Float]

\* kepler_combined(m1, m2, Lz, alpha, E) entered: the arguments are bound,
\* the locals are not assigned yet
KeplerCall(prm) ==
    [m1 |-> FromTenths(prm.m1), m2 |-> FromTenths(prm.m2), Lz |-> FromTenths(prm.Lz),
     alpha |-> FromTenths(prm.alpha), E |-> FromTenths(prm.E)]
        @@ [name \in KeplerNames |-> NaN]

\* the thresholds 1e-3 (angle filter) and 1e-5 (radius guard)
FilterTol == Norm[1, -3]
GuardTol == Norm[1, -5]

\* 1 + epsilon * np.cos(theta)
Denom(epsilon, cos_theta) == FAdd[One, FMul[epsilon, cos_theta]]

\* a faulty variant of Radius: the guard left out
RadiusUnguarded(p, denom) == FDiv[p, denom]

\* r = np.where(np.abs(denom) > 1e-5, p / denom, np.nan)
Radius(p, denom) == IF FGt[FAbs[denom], GuardTol] THEN FDiv[p, denom] ELSE NaN

\* a faulty variant of Potential: the sign left out
PotentialRepulsive(alpha, r) == FDiv[alpha, r]

\* U = -alpha / r
Potential(alpha, r) == FDiv[FNeg[alpha], r]

\* T = 0.5 * mu * (r_dot**2 + (r**2 * theta_dot**2))
Kinetic(mu, r, r_dot, theta_dot) ==
    FMul[FMul[Half, mu], FAdd[Sq[r_dot], FMul[Sq[r], Sq[theta_dot]]]]

\* the right-hand side of the assignment to name (lines 22-49), with the
\* locals a, for the element of the arrays at the angle t
KeplerAssign(a, t, name) ==
    CASE name = "mu" -> FDiv[FMul[a.m1, a.m2], FAdd[a.m1, a.m2]]
      [] name = "arg" ->
            FAdd[One, FDiv[FMul[FMul[Two, a.E], Sq[a.Lz]], FMul[a.mu, Sq[a.alpha]]]]
      [] name = "epsilon" -> FSqrt[a.arg]
      [] name = "p" -> FDiv[Sq[a.Lz], FMul[a.mu, a.alpha]]
      [] name = "cos_theta" -> Cos(t)
      [] name = "sin_theta" -> Sin(t)
      [] name = "denom" -> Denom(a.epsilon, a.cos_theta)
      [] name = "r" -> Radius(a.p, a.denom)
      [] name = "x2" -> FMul[a.r, a.cos_theta]
      [] name = "y2" -> FMul[a.r, a.sin_theta]
      [] name = "dr_dtheta" ->
            FDiv[FMul[FMul[a.p, a.epsilon], a.sin_theta], Sq[Denom(a.epsilon, a.cos_theta)]]
      [] name = "theta_dot" -> FDiv[a.Lz, FMul[a.mu, Sq[a.r]]]
      [] name = "r_dot" -> FMul[a.dr_dtheta, a.theta_dot]
      [] name = "T" -> Kinetic(a.mu, a.r, a.r_dot, a.theta_dot)
      [] name = "U" -> Potential(a.alpha, a.r)
      [] name = "E_total" -> FAdd[a.T, a.U]

\* the assignments to names, one after the other
KeplerExec[a \in KeplerLocals, t \in Angle, names \in Seq(KeplerNames)] ==
    IF names = <<>> THEN a
    ELSE KeplerExec[[a EXCEPT ![Head(names)] = KeplerAssign(a, t, Head(names))],
                    t, Tail(names)]

\* a faulty variant of Unphysical: the test made against 1
UnphysicalBelowOne(a) == FLt[a.arg, One]

\* if arg < 0: print(...); return
Unphysical(a) == FLt[a.arg, Zero]

\* valid = np.abs(1 + epsilon * np.cos(theta_full)) > 1e-3
ValidAngle(epsilon, t) == FGt[FAbs[Denom(epsilon, Cos(t))], FilterTol]

\* if epsilon >= 1: theta = theta_full[valid]  else: theta = theta_full;
\* indexing by the boolean array valid keeps the angles that pass, in order
RetainedAngles(epsilon, theta_full) ==
    IF FGe[epsilon, One]
    THEN SelectSeq(theta_full, LAMBDA t : ValidAngle(epsilon, t))
    ELSE theta_full

\* np.isclose(a, b, atol=atol), with numpy's default rtol = 1e-5
IsClose(a, b, atol) == FLe[FAbs[FSub[a, b]], FAdd[atol, FMul[Norm[1, -5], FAbs[b]]]]

\* the orbit label (lines 80-85)
OrbitType(epsilon) ==
    IF FLt[epsilon, One] THEN "Ellipse"
    ELSE IF IsClose(epsilon, One, Norm[1, -2]) THEN "Parabola"
    ELSE "Hyperbola"

\* veff_eq(rval) = Lz**2 / (2 * mu * rval**2) - alpha / rval - E
VeffEq(a, rval) ==
    FSub[FSub[FDiv[Sq[a.Lz], FMul[FMul[Two, a.mu], Sq[rval]]], FDiv[a.alpha, rval]], a.E]

\* the names assigned for each element of the arrays over theta (lines 39-49)
ArrayNames ==
    <<"cos_theta", "sin_theta", "denom", "r", "x2", "y2",
      "dr_dtheta", "theta_dot", "r_dot", "T", "U", "E_total">>

\* an angle that no assignment reads
NoAngle == [n |-> 0, d |-> 1]

\* lines 39-49 and 80-85: the arrays over the retained angles theta
OrbitArrays[a \in KeplerLocals, theta \in Seq(Angle)] ==
    [status |-> "plotted", locals |-> a, theta_full |-> Linspace(NSamples),
     theta |-> theta,
     samples |-> [i \in 1..Len(theta) |-> KeplerExec[a, theta[i], ArrayNames]],
     orbit_type |-> OrbitType(a.epsilon)]

\* lines 31-37: the retained angles, once epsilon and p are assigned
Plotted[a \in KeplerLocals] ==
    OrbitArrays[a, RetainedAngles(a.epsilon, Linspace(NSamples))]

\* lines 27-32: the early return, or epsilon and p
AfterArg[a \in KeplerLocals] ==
    IF Unphysical(a)
    THEN [status |-> "invalid", locals |-> a, theta_full |-> Linspace(NSamples),
          theta |-> <<>>, samples |-> <<>>, orbit_type |-> "none"]
    ELSE Plotted[KeplerExec[a, NoAngle, <<"epsilon", "p">>]]

\* What one call kepler_combined(m1, m2, Lz, alpha, E) does up to the root
\* search: the early return, or the geometry and the arrays over theta.
Orbit(prm) == AfterArg[KeplerExec[KeplerCall(prm), NoAngle, <<"mu", "arg">>]]

\* Python's None and a value: what a call of safe_fsolve returns; Raise is a call
\* that returns nothing because an exception leaves it
None == [some |-> FALSE, v |-> Zero, raised |-> FALSE]
Some(v) == [some |-> TRUE, v |-> v, raised |-> FALSE]
Raise == [some |-> FALSE, v |-> Zero, raised |-> TRUE]

\* scipy's fsolve is not part of the repository.  A call either raises, or returns
\* (root, info, ier, msg): ier = 1 and a zero of func when it converged, another
\* ier and its last iterate when it did not.
\* r is a zero of veff_eq up to the rounding of its terms
IsZeroOfVeff(a, r) ==
    /\ IsNum(r) /\ r.m # 0
    /\ FLe[FAbs[VeffEq(a, r)], FMul[Norm[1, -5], FAdd[FAbs[FDiv[a.alpha, r]], FAbs[a.E]]]]

\* the zeros of veff_eq: p / (1 + epsilon) and p / (1 - epsilon)
VeffZeros(a) ==
    {r \in {FDiv[a.p, FAdd[One, a.epsilon]], FDiv[a.p, FSub[One, a.epsilon]]} :
        IsZeroOfVeff(a, r)}

\* what fsolve(func, x0) may do when func has the zeros given
FsolveOutcomes(zeros, x0) ==
    {[raised |-> TRUE, ier |-> 0, root |-> x0]}
        \cup {[raised |-> FALSE, ier |-> 5, root |-> x0]}
        \cup {[raised |-> FALSE, ier |-> 1, root |-> r] : r \in zeros}

\* a faulty variant of SafeFsolve: no except clause, fsolve's exception leaves it
SafeFsolveUncaught(out) ==
    IF out.raised THEN Raise
    ELSE IF out.ier = 1 THEN Some(out.root) ELSE None

\* safe_fsolve(func, x0), given what fsolve did
SafeFsolve(out) ==
    IF out.raised THEN None
    ELSE IF out.ier = 1 THEN Some(out.root) ELSE None

\* the initial guesses of the two searches (lines 58-59)
GuessMin == FromTenths(5)
GuessMax == FromInt(5)

\* Python truth of an optional float: None and 0.0 are false
Truthy(opt) == opt.some /\ ~(IsNum(opt.v) /\ opt.v.m = 0)

\* the slider positions the model moves between, in tenths
M1Values == {10, 20}
M2Values == {60, 20}
LzValues == {1, 20, 100}
AlphaValues == {20, 1000}
EValues == {-4, -1, 0, 5}

SimParams == [m1 : M1Values, m2 : M2Values, Lz : LzValues, alpha : AlphaValues, E : EValues]

\* what Orbit yields
Orbits ==
    [status : {"invalid", "plotted"}, locals : KeplerLocals,
     theta_full : Seq(Angle), theta : Seq(Angle), samples : Seq(KeplerLocals),
     orbit_type : {"none", "Ellipse", "Parabola", "Hyperbola"}]

\* an orbit with the zeros of its veff_eq
WithZeros[o \in Orbits] ==
    [orbit |-> o, zeros |-> IF o.status = "invalid" THEN {} ELSE VeffZeros(o.locals)]

\* kepler_combined's arrays for each slider position, tabulated once
OrbitOf == [prm \in SimParams |-> WithZeros[Orbit(prm)]] @@ <<>>

\* the call after line 49: the two root searches (out1, out2 are what fsolve
\* did), the turning-point markers (line 97) and the figure.  calls lists the
\* searches made; an exception leaving a search ends the call there.
KeplerCombined(prm, o, out1, out2) ==
    IF o.status = "invalid"
    THEN [prm |-> prm, orbit |-> o, calls |-> <<>>, rmin |-> None, rmax |-> None,
          markers |-> FALSE, figure |-> FALSE, raised |-> FALSE]
    ELSE IF SafeFsolve(out1).raised
    THEN [prm |-> prm, orbit |-> o, calls |-> <<[x0 |-> GuessMin, out |-> out1]>>,
          rmin |-> None, rmax |-> None,
          markers |-> FALSE, figure |-> FALSE, raised |-> TRUE]
    ELSE IF SafeFsolve(out2).raised
    THEN [prm |-> prm, orbit |-> o,
          calls |-> <<[x0 |-> GuessMin, out |-> out1], [x0 |-> GuessMax, out |-> out2]>>,
          rmin |-> SafeFsolve(out1), rmax |-> None,
          markers |-> FALSE, figure |-> FALSE, raised |-> TRUE]
    ELSE [prm |-> prm, orbit |-> o,
          calls |-> <<[x0 |-> GuessMin, out |-> out1], [x0 |-> GuessMax, out |-> out2]>>,
          rmin |-> SafeFsolve(out1), rmax |-> SafeFsolve(out2),
          markers |-> Truthy(SafeFsolve(out1)) /\ Truthy(SafeFsolve(out2)),
          figure |-> TRUE, raised |-> FALSE]

\* fsolve's outcome in a call that makes no search
NoSearch == [raised |-> FALSE, ier |-> 0, root |-> Zero]

\* the calls kepler_combined(prm) can make, over what fsolve may do
KeplerRunsOf(prm, oz) ==
    IF oz.orbit.status = "invalid"
    THEN {KeplerCombined(prm, oz.orbit, NoSearch, NoSearch)}
    ELSE {KeplerCombined(prm, oz.orbit, out1, out2) :
              out1 \in FsolveOutcomes(oz.zeros, GuessMin),
              out2 \in FsolveOutcomes(oz.zeros, GuessMax)}

KeplerRuns(prm) == KeplerRunsOf(prm, OrbitOf[prm])

\* ------------------------------------------------------------------------
\* simulator_with_graphs.py: sliders, presets, the interactive plot
\* ------------------------------------------------------------------------

\* presets (lines 122-124), in tenths
presets == [Custom |-> [m1 |-> 10, m2 |-> 60, Lz |-> 20, alpha |-> 20, E |-> -4]]

\* the sliders' initial values (lines 126-130)
SliderDefaults == [m1 |-> 10, m2 |-> 60, Lz |-> 20, alpha |-> 20, E |-> -4]

SliderValues == [m1 |-> M1Values, m2 |-> M2Values, Lz |-> LzValues,
                 alpha |-> AlphaValues, E |-> EValues]

\* ------------------------------------------------------------------------
\* animated_orbit.py
\* ------------------------------------------------------------------------

\* the script's parameters (lines 7-11) and the edits of them the model
\* runs the script with, in tenths
AnimDefaults == [m1 |-> 10, m2 |-> 60, Lz |-> 20, alpha |-> 20, E |-> -2]

AnimParams ==
    {AnimDefaults,
     [AnimDefaults EXCEPT !.Lz = 0],
     [AnimDefaults EXCEPT !.E = 0],
     [AnimDefaults EXCEPT !.E = 5],
     [AnimDefaults EXCEPT !.E = -50],
     [AnimDefaults EXCEPT !.E = -4],
     [AnimDefaults EXCEPT !.Lz = 100, !.E = 5],
     [AnimDefaults EXCEPT !.Lz = 1, !.alpha = 1000, !.E = -1]}

\* the numbers the script names at its top level
ScriptNames ==
    {"m1", "m2", "Lz", "alpha", "E", "mu", "arg", "p", "epsilon",
     "cos_theta", "sin_theta", "denom", "r", "x", "y"}

ScriptLocals == [ScriptNames -> Float]

\* lines 7-11
ScriptStart(prm) ==
    [m1 |-> FromTenths(prm.m1), m2 |-> FromTenths(prm.m2), Lz |-> FromTenths(prm.Lz),
     alpha |-> FromTenths(prm.alpha), E |-> FromTenths(prm.E)]
        @@ [name \in ScriptNames |-> NaN]

\* r = np.where(np.abs(denom) > 1e-3, p / denom, np.nan)
AnimRadius(p, denom) == IF FGt[FAbs[denom], FilterTol] THEN FDiv[p, denom] ELSE NaN

\* the right-hand side of the assignment to name (lines 13-26), with the
\* globals a, for the element of the arrays at the angle t
ScriptAssign(a, t, name) ==
    CASE name = "mu" -> FDiv[FMul[a.m1, a.m2], FAdd[a.m1, a.m2]]
      [] name = "arg" ->
            FAdd[One, FDiv[FMul[FMul[Two, a.E], Sq[a.Lz]], FMul[a.mu, Sq[a.alpha]]]]
      [] name = "p" -> FDiv[Sq[a.Lz], FMul[a.mu, a.alpha]]
      [] name = "epsilon" -> FSqrt[a.arg]
      [] name = "cos_theta" -> Cos(t)
      [] name = "sin_theta" -> Sin(t)
      [] name = "denom" -> Denom(a.epsilon, a.cos_theta)
      [] name = "r" -> AnimRadius(a.p, a.denom)
      [] name = "x" -> FMul[a.r, a.cos_theta]
      [] name = "y" -> FMul[a.r, a.sin_theta]

ScriptExec[a \in ScriptLocals, t \in Angle, names \in Seq(ScriptNames)] ==
    IF names = <<>> THEN a
    ELSE ScriptExec[[a EXCEPT ![Head(names)] = ScriptAssign(a, t, Head(names))],
                    t, Tail(names)]

\* valid = denom > 0
AnimValid(e) == FGt[e.denom, Zero]

\* x[valid], for the array of the elements' x
Column(elements, name) == [i \in 1..Len(elements) |-> elements[i][name]]

\* lines 27-29: x = r[valid] * np.cos(theta[valid]) and y
Trajectory[a \in ScriptLocals, elements \in Seq(ScriptLocals)] ==
    [status |-> "plotted", globals |-> a,
     x |-> Column(SelectSeq(elements, AnimValid), "x"),
     y |-> Column(SelectSeq(elements, AnimValid), "y")]

NoTraj == [status |-> "none", globals |-> ScriptStart(AnimDefaults), x |-> <<>>, y |-> <<>>]

\* lines 22-26: the arrays over theta, once p and epsilon are assigned
Elements[a \in ScriptLocals] ==
    Trajectory[a, [i \in 1..NSamples |->
                      ScriptExec[a, Linspace(NSamples)[i],
                                 <<"cos_theta", "sin_theta", "denom", "r", "x", "y">>]]]

\* lines 16-20: the message, or p and epsilon
AfterArgScript[a \in ScriptLocals] ==
    IF Unphysical(a) THEN [NoTraj EXCEPT !.status = "unphysical", !.globals = a]
    ELSE Elements[ScriptExec[a, NoAngle, <<"p", "epsilon">>]]

\* the script's top level for each parameter set, tabulated once
AnimOf ==
    [prm \in AnimParams |->
        AfterArgScript[ScriptExec[ScriptStart(prm), NoAngle, <<"mu", "arg">>]]] @@ <<>>

\* a[j] in Python: j counts from 0, a negative j from the end
InRange(a, j) == -Len(a) <= j /\ j < Len(a)
PyIndex(a, j) == IF j < 0 THEN a[Len(a) + j + 1] ELSE a[j + 1]

\* the index of the neighbour the tangent is taken to (lines 58-63)
Neighbour(n, i) == IF i < n - 1 THEN i + 1 ELSE i - 1

\* v_mag (lines 52-55)
SpeedAt(E, alpha, mu, r_i) ==
    IF FEq[r_i, Zero] THEN Zero
    ELSE FSqrt[FDiv[FMul[Two, FAdd[E, FDiv[alpha, r_i]]], mu]]

\* a faulty variant of Scaled: the test of tangent_norm left out
ScaledUnguarded(v_mag, d, tangent_norm) == FDiv[FMul[v_mag, d], tangent_norm]

\* vx or vy (lines 66-70)
Scaled(v_mag, d, tangent_norm) ==
    IF FEq[tangent_norm, Zero] THEN Zero ELSE FDiv[FMul[v_mag, d], tangent_norm]

\* the numbers update(frame) names: the globals it reads, the elements
\* x_i = x[i], y_i = y[i] and x_j, y_j of the neighbour, and its locals
UpdateNames ==
    {"E", "alpha", "mu", "x_i", "y_i", "x_j", "y_j",
     "r_i", "v_mag", "dx", "dy", "tangent_norm", "vx", "vy"}

UpdateLocals == [UpdateNames -> Float]

\* the right-hand side of the assignment to name (lines 49-70); forward is
\* i < len(x) - 1
UpdateAssign(a, forward, name) ==
    CASE name = "r_i" -> FSqrt[FAdd[Sq[a.x_i], Sq[a.y_i]]]
      [] name = "v_mag" -> SpeedAt(a.E, a.alpha, a.mu, a.r_i)
      [] name = "dx" -> IF forward THEN FSub[a.x_j, a.x_i] ELSE FSub[a.x_i, a.x_j]
      [] name = "dy" -> IF forward THEN FSub[a.y_j, a.y_i] ELSE FSub[a.y_i, a.y_j]
      [] name = "tangent_norm" -> FSqrt[FAdd[Sq[a.dx], Sq[a.dy]]]
      [] name = "vx" -> Scaled(a.v_mag, a.dx, a.tangent_norm)
      [] name = "vy" -> Scaled(a.v_mag, a.dy, a.tangent_norm)

UpdateExec[a \in UpdateLocals, forward \in BOOLEAN, names \in Seq(UpdateNames)] ==
    IF names = <<>> THEN a
    ELSE UpdateExec[[a EXCEPT ![Head(names)] = UpdateAssign(a, forward, Head(names))],
                    forward, Tail(names)]

\* update entered with frame i reading the elements i and j
UpdateCall(traj, i, j) ==
    [E |-> traj.globals.E, alpha |-> traj.globals.alpha, mu |-> traj.globals.mu,
     x_i |-> PyIndex(traj.x, i), y_i |-> PyIndex(traj.y, i),
     x_j |-> PyIndex(traj.x, j), y_j |-> PyIndex(traj.y, j)]
        @@ [name \in UpdateNames |-> NaN]

NoArrow == [err |-> "none", i |-> -1, reads |-> {}, locals |-> [name \in UpdateNames |-> NaN] @@ <<>>]

\* update(frame), lines 47-70
Update(traj, i) ==
    IF ~InRange(traj.x, i) \/ ~InRange(traj.x, Neighbour(Len(traj.x), i))
    THEN [NoArrow EXCEPT !.err = "IndexError", !.i = i,
                         !.reads = {i, Neighbour(Len(traj.x), i)}]
    ELSE [err |-> "none", i |-> i, reads |-> {i, Neighbour(Len(traj.x), i)},
          locals |-> UpdateExec[UpdateCall(traj, i, Neighbour(Len(traj.x), i)),
                                i < Len(traj.x) - 1,
                                <<"r_i", "v_mag", "dx", "dy", "tangent_norm", "vx", "vy">>]]

\* ------------------------------------------------------------------------
\* The two programs
\* ------------------------------------------------------------------------

VARIABLES
    program,    \* which script runs: "sim" or "anim"
    sliders,    \* sim: the values of m1_slider .. E_slider, in tenths
    plot,       \* sim: what the last call of kepler_combined did
    event,      \* sim: the last widget event handled
    aPrm,       \* anim: the script's parameters
    aPc,        \* anim: "start", "unphysical", "animating", "failed", "done"
    aTraj,      \* anim: the script's globals and the arrays x, y
    frame,      \* anim: the number of frames drawn
    arrow       \* anim: what the last update(frame) did

vars == <<program, sliders, plot, event, aPrm, aPc, aTraj, frame, arrow>>

simVars == <<sliders, plot, event>>
animVars == <<aPrm, aPc, aTraj, frame, arrow>>

NoEvent == [kind |-> "load", error |-> FALSE, preset |-> "none"]

\* no call of kepler_combined made
NoPlot ==
    [prm |-> SliderDefaults,
     orbit |-> [status |-> "none", locals |-> KeplerCall(SliderDefaults), theta_full |-> <<>>,
                theta |-> <<>>, samples |-> <<>>, orbit_type |-> "none"],
     calls |-> <<>>, rmin |-> None, rmax |-> None,
     markers |-> FALSE, figure |-> FALSE, raised |-> FALSE]

\* the interactive plot calls kepler_combined with the sliders' values
\* whenever one of them changes (lines 149-154); fsolve does what it does
Replot(values) == plot' \in KeplerRuns(values)

\* display(ui, interactive_plot): the first plot, of the sliders' initial values
SimInit ==
    /\ program = "sim"
    /\ sliders = SliderDefaults
    /\ plot \in KeplerRuns(SliderDefaults)
    /\ event = NoEvent
    /\ aPrm = AnimDefaults /\ aPc = "off" /\ aTraj = NoTraj /\ frame = 0 /\ arrow = NoArrow

\* the user moves one slider to another value
SliderMoved ==
    /\ program = "sim"
    /\ \E name \in DOMAIN SliderValues :
         \E v \in SliderValues[name] \ {sliders[name]} :
            /\ sliders' = [sliders EXCEPT ![name] = v]
            /\ Replot(sliders')
    /\ event' = [kind |-> "slider", error |-> FALSE, preset |-> "none"]
    /\ UNCHANGED <<program, animVars>>

\* update_from_preset(change), first outcome of line 136: FloatSlider(...) is
\* given Ellipsis as its value and raises, which ends the callback there
PresetRaises(name) ==
    /\ event' = [kind |-> "preset", error |-> TRUE, preset |-> name]
    /\ UNCHANGED <<sliders, plot>>

\* the sliders after lines 137-140: m2, Lz, alpha and E take the preset's
\* values; line 136 assigned a local name, the global m1_slider is as before
AfterPreset(old, preset) ==
    [m1 |-> old.m1, m2 |-> preset.m2, Lz |-> preset.Lz, alpha |-> preset.alpha,
     E |-> preset.E]

\* update_from_preset(change), second outcome of line 136: the constructor
\* returns a new slider, bound to the function's local name m1_slider
PresetAssigns(name) ==
    /\ sliders' = AfterPreset(sliders, presets[name])
    /\ IF sliders' # sliders THEN Replot(sliders') ELSE plot' = plot
    /\ event' = [kind |-> "preset", error |-> FALSE, preset |-> name]

\* the dropdown's value changes to a preset name (line 142)
PresetSelected ==
    /\ program = "sim"
    /\ \E name \in DOMAIN presets : PresetRaises(name) \/ PresetAssigns(name)
    /\ UNCHANGED <<program, animVars>>

AnimInit ==
    /\ program = "anim"
    /\ aPrm \in AnimParams
    /\ aPc = "start" /\ aTraj = NoTraj /\ frame = 0 /\ arrow = NoArrow
    /\ sliders = SliderDefaults /\ event = NoEvent /\ plot = NoPlot

\* lines 13-44: the message and the end of the script, or the trajectory,
\* the figure and the first arrow
ScriptRun ==
    /\ program = "anim" /\ aPc = "start"
    /\ aTraj' = AnimOf[aPrm]
    /\ aPc' = IF aTraj'.status = "unphysical" THEN "unphysical" ELSE "animating"
    /\ UNCHANGED <<program, simVars, aPrm, frame, arrow>>

\* FuncAnimation(fig, update, frames=len(x)) draws frame 0, 1, ..: one update(frame)
AnimFrame ==
    /\ program = "anim" /\ aPc = "animating"
    /\ frame < Len(aTraj.x)
    /\ arrow' = Update(aTraj, frame)
    /\ frame' = frame + 1
    /\ aPc' = IF arrow'.err = "none" THEN aPc ELSE "failed"
    /\ UNCHANGED <<program, simVars, aPrm, aTraj>>

\* all frames drawn: the video is shown (lines 80-81)
AnimShown ==
    /\ program = "anim" /\ aPc = "animating"
    /\ frame = Len(aTraj.x)
    /\ aPc' = "done"
    /\ UNCHANGED <<program, simVars, aPrm, aTraj, frame, arrow>>

Init == SimInit \/ AnimInit

Next ==
    \/ SliderMoved
    \/ PresetSelected
    \/ ScriptRun
    \/ AnimFrame
    \/ AnimShown

Spec == Init /\ [][Next]_vars

\* ------------------------------------------------------------------------
\* The claims
\* ------------------------------------------------------------------------

\* arg < 0, decided exactly from the parameters in tenths:
\* arg = 1 + 2 E Lz^2 (m1 + m2) / (m1 m2 alpha^2)
ArgNegative(prm) ==
    prm.m1 * prm.m2 * prm.alpha * prm.alpha
        + 2 * prm.E * prm.Lz * prm.Lz * (prm.m1 + prm.m2) < 0

\* the geometry of the locals a: epsilon = sqrt(arg) >= 0 and p = Lz^2 / (mu alpha)
Geometry(a) ==
    /\ FGe[a.arg, Zero]
    /\ a.epsilon = FSqrt[a.arg] /\ FGe[a.epsilon, Zero]
    /\ FLe[FAbs[FSub[Sq[a.epsilon], a.arg]], FMul[Norm[1, -6], FAdd[a.arg, One]]]
    /\ a.p = FDiv[Sq[a.Lz], FMul[a.mu, a.alpha]]

\* C1: with arg < 0 kepler_combined and the animation script end with the
\* message and produce no geometry, no sample, no root search and no figure;
\* with arg >= 0 they produce epsilon = sqrt(arg) >= 0 and p = Lz^2 / (mu alpha).
C1_UnphysicalOrGeometry ==
    /\ program = "sim" =>
         /\ (plot.orbit.status = "invalid") = ArgNegative(plot.prm)
         /\ plot.orbit.status = "invalid" =>
              /\ plot.orbit.samples = <<>> /\ plot.orbit.theta = <<>>
              /\ plot.calls = <<>> /\ ~plot.figure /\ ~plot.markers
              /\ ~IsNum(plot.orbit.locals.epsilon) /\ ~IsNum(plot.orbit.locals.p)
         /\ plot.orbit.status = "plotted" =>
              /\ Geometry(plot.orbit.locals)
              /\ plot.figure /\ Len(plot.orbit.samples) > 0
    /\ program = "anim" /\ aPc # "start" =>
         /\ (aPc = "unphysical") = ArgNegative(aPrm)
         /\ aPc = "unphysical" =>
              /\ aTraj.x = <<>> /\ aTraj.y = <<>> /\ frame = 0
              /\ ~IsNum(aTraj.globals.epsilon) /\ ~IsNum(aTraj.globals.p)
         /\ aPc # "unphysical" => Geometry(aTraj.globals) /\ Len(aTraj.x) > 0

\* a slider was moved to an unphysical position and the call returned early
C1_Witness ==
    /\ program = "sim" /\ event.kind = "slider"
    /\ plot.orbit.status = "invalid" /\ ArgNegative(sliders)

\* C2 as stated: epsilon within the tolerance of 1 is a Parabola, any other
\* epsilon < 1 an Ellipse, any other epsilon > 1 a Hyperbola.
C2_ParabolaWithinTolerance ==
    program = "sim" /\ plot.orbit.status = "plotted" =>
        plot.orbit.orbit_type =
            IF IsClose(plot.orbit.locals.epsilon, One, Norm[1, -2]) THEN "Parabola"
            ELSE IF FLt[plot.orbit.locals.epsilon, One] THEN "Ellipse"
            ELSE "Hyperbola"

\* C3 as stated: every retained sample has a denominator above 1e-3 and a
\* finite positive radius, in kepler_combined and in the animation script.
C3_RetainedDenominatorsPositive ==
    /\ program = "sim" /\ plot.orbit.status = "plotted" =>
         \A i \in 1..Len(plot.orbit.samples) :
            /\ FGt[plot.orbit.samples[i].denom, FilterTol]
            /\ IsNum(plot.orbit.samples[i].r) /\ FGt[plot.orbit.samples[i].r, Zero]
    /\ program = "anim" /\ aTraj.status = "plotted" =>
         \A i \in 1..Len(aTraj.x) : IsNum(aTraj.x[i]) /\ IsNum(aTraj.y[i])

EnergyTol(s) ==
    FMul[Norm[1, -6],
         FAdd[FAdd[One, FAbs[FDiv[s.alpha, s.p]]], FAdd[FAbs[s.T], FAbs[s.U]]]]

C6_SearchesIndependent ==
    program = "sim" /\ plot.orbit.status = "plotted" =>
        /\ ~plot.raised /\ plot.figure
        /\ Len(plot.calls) = 2
        /\ plot.calls[1].x0 = GuessMin /\ plot.calls[2].x0 = GuessMax
        /\ plot.rmin = IF ~plot.calls[1].out.raised /\ plot.calls[1].out.ier = 1
                       THEN Some(plot.calls[1].out.root) ELSE None
        /\ plot.rmax = IF ~plot.calls[2].out.raised /\ plot.calls[2].out.ier = 1
                       THEN Some(plot.calls[2].out.root) ELSE None

\* fsolve threw in the first search and the second search found a root
C6_Witness ==
    /\ program = "sim" /\ event.kind = "slider" /\ plot.orbit.status = "plotted"
    /\ Len(plot.calls) = 2
    /\ plot.calls[1].out.raised /\ ~plot.rmin.some
    /\ plot.rmax.some

\* C7 as stated: when both turning points are marked they are two distinct
\* positive zeros of veff_eq, rmin < rmax.
C7_TurningPointsOrdered ==
    program = "sim" /\ plot.markers =>
        /\ FGt[plot.rmin.v, Zero]
        /\ FLt[plot.rmin.v, plot.rmax.v]
        /\ IsZeroOfVeff(plot.orbit.locals, plot.rmin.v)
        /\ IsZeroOfVeff(plot.orbit.locals, plot.rmax.v)

\* C8: update(frame) raises nothing and divides by nothing that is zero: it
\* reads the elements i and i + 1, or i and i - 1 at the last index, both in
\* range; a zero tangent gives (0, 0), a zero radius the speed 0, and otherwise
\* the arrow is the tangent scaled to sqrt(2 * (E + alpha / r_i) / mu).
C8_UpdateTotal ==
    program = "anim" /\ arrow.i >= 0 =>
        /\ arrow.err = "none"
        /\ arrow.i < Len(aTraj.x)
        /\ arrow.reads = IF arrow.i < Len(aTraj.x) - 1
                         THEN {arrow.i, arrow.i + 1} ELSE {arrow.i, arrow.i - 1}
        /\ \A j \in arrow.reads : 0 <= j /\ j < Len(aTraj.x)
        /\ \A name \in UpdateNames : arrow.locals[name].k # "zdiv"
        /\ arrow.locals.dx =
              IF arrow.i < Len(aTraj.x) - 1
              THEN FSub[aTraj.x[arrow.i + 2], aTraj.x[arrow.i + 1]]
              ELSE FSub[aTraj.x[arrow.i + 1], aTraj.x[arrow.i]]
        /\ arrow.locals.tangent_norm = Zero =>
              arrow.locals.vx = Zero /\ arrow.locals.vy = Zero
        /\ arrow.locals.r_i = Zero => arrow.locals.v_mag = Zero
        /\ arrow.locals.r_i # Zero =>
              arrow.locals.v_mag =
                 FSqrt[FDiv[FMul[Two, FAdd[arrow.locals.E,
                                           FDiv[arrow.locals.alpha, arrow.locals.r_i]]],
                            arrow.locals.mu]]
        /\ arrow.locals.tangent_norm # Zero =>
              /\ arrow.locals.vx =
                    FDiv[FMul[arrow.locals.v_mag, arrow.locals.dx], arrow.locals.tangent_norm]
              /\ arrow.locals.vy =
                    FDiv[FMul[arrow.locals.v_mag, arrow.locals.dy], arrow.locals.tangent_norm]

\* a frame was drawn whose two samples coincide: the arrow is (0, 0)
C8_Witness ==
    /\ program = "anim" /\ arrow.i >= 0
    /\ arrow.locals.tangent_norm = Zero
    /\ arrow.locals.vx = Zero /\ arrow.locals.vy = Zero

\* C9, corrected: the grid is NSamples angles over the closed interval
\* [0, 2 pi]: the first is 0, the last is 2 pi itself, consecutive angles
\* differ by 2 pi / (NSamples - 1), and the first and the last angle are the
\* same direction.
C9_GridClosedInterval ==
    program = "sim" /\ plot.orbit.status # "none" =>
        /\ Len(plot.orbit.theta_full) = NSamples
        /\ plot.orbit.theta_full[1].n = 0
        /\ plot.orbit.theta_full[NSamples].n = plot.orbit.theta_full[NSamples].d
        /\ \A i \in 1..(NSamples - 1) :
              /\ plot.orbit.theta_full[i].d = NSamples - 1
              /\ plot.orbit.theta_full[i + 1].n - plot.orbit.theta_full[i].n = 1
        /\ Cos(plot.orbit.theta_full[NSamples]) = Cos(plot.orbit.theta_full[1])
        /\ Sin(plot.orbit.theta_full[NSamples]) = Sin(plot.orbit.theta_full[1])

\* a closed orbit is plotted over the whole grid, both ends of it
C9_Witness ==
    /\ program = "sim" /\ event.kind = "slider" /\ plot.orbit.status = "plotted"
    /\ plot.orbit.theta = plot.orbit.theta_full
    /\ plot.orbit.theta[1].n = 0
    /\ plot.orbit.theta[NSamples].n = plot.orbit.theta[NSamples].d

\* C9 as stated: the grid is NSamples angles over [0, 2 pi): every angle is
\* below 2 pi and consecutive angles differ by 2 pi / NSamples.
C9_GridHalfOpen ==
    program = "sim" /\ plot.orbit.status # "none" =>
        /\ Len(plot.orbit.theta_full) = NSamples
        /\ plot.orbit.theta_full[1].n = 0
        /\ \A i \in 1..NSamples :
              /\ plot.orbit.theta_full[i].n < plot.orbit.theta_full[i].d
              /\ plot.orbit.theta_full[i].d = NSamples
              /\ plot.orbit.theta_full[i].n = i - 1

\* C10 as stated: after the dropdown changed to a preset the callback has
\* ended without error and all five sliders hold the preset's values.
C10_PresetSetsAllSliders ==
    program = "sim" /\ event.kind = "preset" =>
        /\ ~event.error
        /\ sliders = presets[event.preset]

====
